---- MODULE Spec2Model ----
(***************************************************************************)
(* Model of the pastry paste server (src/src/main.rs).                     *)
(*                                                                         *)
(* One SQLite connection sits behind a std::sync::Mutex in AppState.  The  *)
(* actix-web workers run the three handlers index, submit and get_paste    *)
(* concurrently; none of them awaits, so a handler is a straight-line      *)
(* sequence of steps on its worker thread and the only interleaving points *)
(* are between those steps.  A panic inside a handler unwinds that request *)
(* only (the worker keeps serving), but a std Mutex whose guard is dropped *)
(* during a panic becomes poisoned and every later lock() returns Err.     *)
(*                                                                         *)
(* SQLite reads of the local file are taken to succeed; a write may fail   *)
(* on the primary-key constraint or on an I/O error.                       *)
(***************************************************************************)
EXTENDS Integers, Sequences, FiniteSets, TLC

\* ---------------------------------------------------------------- bounds
NumWorkers == 2
NumSeeds == 2

Workers == 1..NumWorkers
Seeds == 0..(NumSeeds - 1)

\* ------------------------------------------------------------- constants
TokenLen == 10
StatusOk == 200
StatusSeeOther == 303

\* rand::distributions::Alphanumeric samples from this 62-character set.
Charset ==
  << "A","B","C","D","E","F","G","H","I","J","K","L","M",
     "N","O","P","Q","R","S","T","U","V","W","X","Y","Z",
     "a","b","c","d","e","f","g","h","i","j","k","l","m",
     "n","o","p","q","r","s","t","u","v","w","x","y","z",
     "0","1","2","3","4","5","6","7","8","9" >>

Alphanumeric == { Charset[i] : i \in 1..Len(Charset) }

\* The stream of samples thread_rng().sample_iter(&Alphanumeric) yields for
\* one state of the generator; two requests that meet the same generator
\* state draw the same token.
RngStream(seed) ==
  [ i \in 1..(TokenLen + 1) |-> Charset[((seed * 23 + i * 7) % Len(Charset)) + 1] ]

\* .take(10).map(char::from).collect()
GenTokenShort(stream) == [ i \in 1..(TokenLen - 1) |-> stream[i] ]

GenToken(stream) == [ i \in 1..TokenLen |-> stream[i] ]

\* form bodies a client posts
Contents == { "hello world", "Paste not found" }

\* path parameters a client asks for: every token the generator can produce
\* and one that it never produces
NoSuchToken == << "d","o","e","s","n","o","t","e","x","i","s","t" >>

Paths == { GenToken(RngStream(s)) : s \in Seeds } \cup { NoSuchToken }

\* ------------------------------------------------------------ the store
\* pastes(token TEXT PRIMARY KEY, content TEXT): a set of rows.
Row(t, c) == [ token |-> t, content |-> c ]

HasToken(tbl, t) == \E row \in tbl : row.token = t

\* conn.execute("INSERT INTO pastes (token, content) VALUES (?, ?)", ...)
\* Ok(1) with the row added, or Err leaving the table as it was.
execute_replace(tbl, t, c, ioFail) ==
  IF ioFail
    THEN [ ok |-> FALSE, err |-> "SystemIoFailure", table |-> tbl ]
    ELSE [ ok |-> TRUE, err |-> "",
           table |-> { row \in tbl : row.token # t } \cup { Row(t, c) } ]

execute_nokey(tbl, t, c, ioFail) ==
  IF ioFail
    THEN [ ok |-> FALSE, err |-> "SystemIoFailure", table |-> tbl ]
    ELSE [ ok |-> TRUE, err |-> "", table |-> tbl \cup { Row(t, c) } ]

execute_insert(tbl, t, c, ioFail) ==
  IF ioFail
    THEN [ ok |-> FALSE, err |-> "SystemIoFailure", table |-> tbl ]
    ELSE IF HasToken(tbl, t)
      THEN [ ok |-> FALSE, err |-> "ConstraintViolation", table |-> tbl ]
      ELSE [ ok |-> TRUE, err |-> "", table |-> tbl \cup { Row(t, c) } ]

\* conn.query_row("SELECT content FROM pastes WHERE token = ?", ...)
query_row(tbl, t) ==
  IF HasToken(tbl, t)
    THEN [ ok |-> TRUE, value |-> (CHOOSE row \in tbl : row.token = t).content ]
    ELSE [ ok |-> FALSE, value |-> "QueryReturnedNoRows" ]

\* .unwrap_or_else(|_| "Paste not found".to_string())
unwrap_or_empty(res) == IF res.ok THEN res.value ELSE ""

unwrap_or_else(res) == IF res.ok THEN res.value ELSE "Paste not found"

\* format!(r#"... <h1 class="text-3xl mb-6">{}</h1> ..."#, paste_content);
\* the fixed markup before and after the placeholder is abbreviated to the
\* lines around it.
PageHead == "<h2> Rusty Pastry</h2><h1  class=\"text-3xl mb-6\">"
PageTail == "</h1></body></html>"

html_page(paste_content) == PageHead \o paste_content \o PageTail

\* include_str!("index.html")
IndexHtml == "index.html"

\* ------------------------------------------------------------ responses
NoResponse ==
  [ kind |-> "none", status |-> 0, location |-> << >>, body |-> "", msg |-> "" ]

HttpOk(b) ==
  [ kind |-> "http", status |-> StatusOk, location |-> << >>, body |-> b, msg |-> "" ]

\* HttpResponse::SeeOther().header("Location", format!("/paste/{}", token))
PastePrefix == << "/","p","a","s","t","e","/" >>

SeeOther(t) ==
  [ kind |-> "http", status |-> StatusSeeOther, location |-> PastePrefix \o t,
    body |-> "", msg |-> "" ]

\* a handler that panicked: the connection is dropped without a response
Panicked(m) ==
  [ kind |-> "panic", status |-> 0, location |-> << >>, body |-> "", msg |-> m ]

\* data.db.lock().unwrap() on a poisoned mutex
PoisonPanic == Panicked("PoisonError")

\* .expect("Failed to insert into database")
InsertPanic(err) == Panicked("Failed to insert into database: " \o err)

\* ---------------------------------------------------------------- state
VARIABLES
  table,          \* rows of pastes
  holder,         \* worker owning the MutexGuard, 0 when the mutex is free
  poisoned,       \* the mutex's poison flag
  pc,             \* position of each worker's current handler
  req,            \* the request each worker is serving
  token,          \* submit's local `token`
  redirected,     \* rows whose submit has answered with its redirect
  out             \* what the step just taken put on the wire, if anything

vars == << table, holder, poisoned, pc, req, token, redirected, out >>

NoRequest == [ kind |-> "none", content |-> "", path |-> << >>, after |-> FALSE ]
NoLookup == [ ok |-> FALSE, value |-> "" ]

\* the end of a request: which handler ran, whether its lookup found a row,
\* and what the client got
Outcome(r, lk, rs) == [ kind |-> req[r].kind, hit |-> lk.ok, resp |-> rs ]

Silent == [ kind |-> "none", hit |-> FALSE, resp |-> NoResponse ]

Init ==
  /\ table = {}
  /\ holder = 0
  /\ poisoned = FALSE
  /\ pc = [ r \in Workers |-> "idle" ]
  /\ req = [ r \in Workers |-> NoRequest ]
  /\ token = [ r \in Workers |-> << >> ]
  /\ redirected = {}
  /\ out = Silent

\* Mutex::lock blocks until no other thread owns the guard.
can_lock_always(h) == TRUE

can_lock(h) == h = 0

\* Unwinding out of a handler drops its MutexGuard, which unlocks the mutex.
guard_leaked(h) == h

guard_dropped(h) == 0

\* ------------------------------------------------------------- handlers
\* A worker picks up the next request.
Accept(r, rq, tk, next) ==
  /\ pc[r] = "idle"
  /\ pc' = [ pc EXCEPT ![r] = next ]
  /\ req' = [ req EXCEPT ![r] = rq ]
  /\ token' = [ token EXCEPT ![r] = tk ]
  /\ out' = Silent
  /\ UNCHANGED << table, holder, poisoned, redirected >>

\* The handler returns or unwinds: the outcome goes to the client and the
\* worker is free again.
Finish(r, lk, rs) ==
  /\ out' = Outcome(r, lk, rs)
  /\ pc' = [ pc EXCEPT ![r] = "idle" ]
  /\ req' = [ req EXCEPT ![r] = NoRequest ]
  /\ token' = [ token EXCEPT ![r] = << >> ]

\* GET /
AcceptIndex(r) == Accept(r, [ NoRequest EXCEPT !.kind = "index" ], << >>, "index")

IndexLocking(r) ==
  /\ pc[r] = "index"
  /\ holder = 0
  /\ Finish(r, NoLookup, IF poisoned THEN PoisonPanic ELSE HttpOk(IndexHtml))
  /\ UNCHANGED << table, holder, poisoned, redirected >>

Index(r) ==
  /\ pc[r] = "index"
  /\ Finish(r, NoLookup, HttpOk(IndexHtml))
  /\ UNCHANGED << table, holder, poisoned, redirected >>

\* POST /submit: the form is parsed and the token is drawn before the lock.
SubmitTokenOf(r, forms) ==
  \E c \in forms, s \in Seeds :
    Accept(r, [ NoRequest EXCEPT !.kind = "submit", !.content = c ],
           GenToken(RngStream(s)), "lock")

SubmitToken(r) == SubmitTokenOf(r, Contents)

\* GET /paste/{token}; `after` notes whether a redirect to this path has
\* already been sent.
AcceptGetOf(r, paths) ==
  \E p \in paths :
    Accept(r, [ NoRequest EXCEPT !.kind = "get", !.path = p,
                  !.after = HasToken(redirected, p) ], << >>, "lock")

AcceptGet(r) == AcceptGetOf(r, Paths)

\* data.db.lock(): the guard is obtained, poisoned or not.
Lock(r) ==
  /\ pc[r] = "lock"
  /\ can_lock(holder)
  /\ holder' = r
  /\ pc' = [ pc EXCEPT ![r] = "unwrap" ]
  /\ out' = Silent
  /\ UNCHANGED << table, poisoned, req, token, redirected >>

\* .unwrap() of the LockResult: Err(PoisonError) panics and drops the guard.
Unwrap(r) ==
  /\ pc[r] = "unwrap"
  /\ IF poisoned
       THEN /\ holder' = guard_dropped(holder)
            /\ Finish(r, NoLookup, PoisonPanic)
       ELSE /\ pc' = [ pc EXCEPT ![r] = IF req[r].kind = "submit" THEN "insert" ELSE "query" ]
            /\ out' = Silent
            /\ UNCHANGED << holder, req, token >>
  /\ UNCHANGED << table, poisoned, redirected >>

\* conn.execute(INSERT ...).expect("Failed to insert into database"), then
\* HttpResponse::SeeOther()...finish(); `conn` goes out of scope on return
\* and on unwinding.
Submit(r) ==
  /\ pc[r] = "insert"
  /\ \E ioFail \in BOOLEAN :
       LET res == execute_insert(table, token[r], req[r].content, ioFail) IN
         /\ table' = res.table
         /\ IF res.ok
              THEN /\ Finish(r, NoLookup, SeeOther(token[r]))
                   /\ holder' = 0
                   /\ redirected' = redirected \cup { Row(token[r], req[r].content) }
                   /\ UNCHANGED poisoned
              ELSE /\ Finish(r, NoLookup, InsertPanic(res.err))
                   /\ holder' = guard_dropped(holder)
                   /\ poisoned' = TRUE
                   /\ UNCHANGED redirected

\* conn.query_row(SELECT ...).unwrap_or_else(...), format!(...) and
\* Ok(HttpResponse::Ok()...body(html_page)); `conn` goes out of scope.
GetPaste(r) ==
  /\ pc[r] = "query"
  /\ LET paste == query_row(table, req[r].path) IN
       Finish(r, paste, HttpOk(html_page(unwrap_or_else(paste))))
  /\ holder' = 0
  /\ UNCHANGED << table, poisoned, redirected >>

Next ==
  \E r \in Workers :
    \/ AcceptIndex(r)
    \/ Index(r)
    \/ SubmitToken(r)
    \/ AcceptGet(r)
    \/ Lock(r)
    \/ Unwrap(r)
    \/ Submit(r)
    \/ GetPaste(r)

Spec == Init /\ [][Next]_vars

\* Scheduling: a worker thread that can take a step eventually takes it, and
\* a thread blocked in lock() is not passed over forever.  Clients are free
\* to stop sending requests.
Step(r) == Index(r) \/ Unwrap(r) \/ Submit(r) \/ GetPaste(r)

\* Whether a request ends does not depend on the text posted or on which
\* path is asked for: here every form carries the same content and
\* get_paste is asked for one token the generator can draw and for one it
\* cannot.
FairNext ==
  \E r \in Workers :
    \/ AcceptIndex(r)
    \/ Index(r)
    \/ SubmitTokenOf(r, { "hello world" })
    \/ AcceptGetOf(r, { GenToken(RngStream(0)), NoSuchToken })
    \/ Lock(r)
    \/ Unwrap(r)
    \/ Submit(r)
    \/ GetPaste(r)

FairSpec ==
  /\ Init
  /\ [][FairNext]_vars
  /\ \A r \in Workers : WF_vars(Step(r)) /\ SF_vars(Lock(r))

\* ------------------------------------------------------------ properties
\* the step ends worker r's request of the given kind
Ends(r, kind) == req[r].kind = kind /\ pc[r] # "idle" /\ pc'[r] = "idle"

\* C1: once a submit of content C has answered with a redirect to /paste/T,
\* every get_paste for T accepted afterwards answers 200 with the page
\* embedding exactly C.
C1_RoundTrip ==
  [][ \A r \in Workers :
        (Ends(r, "get") /\ req[r].after) =>
          \E row \in redirected :
            /\ row.token = req[r].path
            /\ out'.resp = HttpOk(html_page(row.content)) ]_vars

\* C2: every 303 answer of submit carries Location /paste/T where T is the
\* key of the row this request inserted, and T is 10 alphanumeric characters.
C2_RedirectToken ==
  [][ \A r \in Workers :
        (Ends(r, "submit") /\ out'.resp.kind = "http") =>
          LET loc == out'.resp.location
              T == SubSeq(loc, Len(PastePrefix) + 1, Len(loc)) IN
            /\ out'.resp.status = 303
            /\ SubSeq(loc, 1, Len(PastePrefix)) = PastePrefix
            /\ Row(T, req[r].content) \in table'
            /\ Row(T, req[r].content) \notin table
            /\ Len(T) = 10
            /\ \A i \in 1..Len(T) : T[i] \in Alphanumeric ]_vars

C2_Witness == out.kind = "submit" /\ out.resp.status = 303

\* C3: a get_paste for a token that has no row always answers 200 with the
\* page embedding "Paste not found"; it never panics.
C3_MissIsSentinel ==
  [][ \A r \in Workers :
        (Ends(r, "get") /\ ~HasToken(table, req[r].path)) =>
          out'.resp = HttpOk(html_page("Paste not found")) ]_vars

\* C4: a submit whose token already has a row fails at the insert: the
\* table is left exactly as it was and the request ends without a 303.
C4_DuplicateInsertFails ==
  [][ \A r \in Workers :
        (pc[r] = "insert" /\ HasToken(table, token[r]) /\ pc'[r] # "insert") =>
          /\ table' = table
          /\ pc'[r] = "idle"
          /\ out'.resp.kind = "panic"
          /\ out'.resp.status # 303 ]_vars

C4_Witness ==
  /\ out.resp = InsertPanic("ConstraintViolation")
  /\ table # {}

\* C5: the index handler is never blocked by the mutex, answers 200 with the
\* landing page whatever the state of the database, and leaves the table and
\* the mutex untouched.
C5_IndexAlwaysOk ==
  /\ [](\A r \in Workers : pc[r] = "index" => ENABLED Index(r))
  /\ [][ \A r \in Workers :
           Ends(r, "index") =>
             /\ out'.resp = HttpOk(IndexHtml)
             /\ UNCHANGED << table, holder, poisoned >> ]_vars

C5_Witness ==
  /\ out.kind = "index"
  /\ out.resp.status = 200
  /\ poisoned
  /\ holder # 0

\* C6: at most one handler at a time is executing an insert or a lookup, and
\* a handler doing so owns the mutex guard.
Touching == { r \in Workers : pc[r] \in { "insert", "query" } }

C6_Serialized ==
  /\ Cardinality(Touching) <= 1
  /\ \A r \in Touching : holder = r

C6_Witness ==
  \E r1, r2 \in Workers : pc[r1] = "insert" /\ pc[r2] = "lock"

\* C7: a failed insert harms only its own request: no later request fails
\* at the lock.
C7_FailureIsLocal == out.resp # PoisonPanic

\* C8: a request leaves lock() only as the owner of the guard, and under
\* fair scheduling every request, waiting for the mutex or past it,
\* eventually ends with a response or a failure.
C8_NoDeadlock ==
  /\ [][ \A r \in Workers : (pc[r] = "lock" /\ pc'[r] # "lock") => holder' = r ]_vars
  /\ \A r \in Workers : (pc[r] # "idle") ~> (pc[r] = "idle")

C8_Witness ==
  /\ poisoned
  /\ \E r \in Workers : pc[r] = "unwrap" /\ holder = r

\* C9: the table holds at most one row per token, and a step either leaves
\* it unchanged or is a successful insert adding one row for a token that
\* had none; rows are never changed or removed.
C9_GrowOnly ==
  /\ [](\A x, y \in table : x.token = y.token => x = y)
  /\ [][ \/ table' = table
         \/ \E r \in Workers :
              /\ Ends(r, "submit")
              /\ out'.resp.status = 303
              /\ ~HasToken(table, token[r])
              /\ table' = table \cup { Row(token[r], req[r].content) }
              /\ Cardinality(table') = Cardinality(table) + 1 ]_vars

C9_Witness ==
  /\ Cardinality(table) >= 2
  /\ poisoned

\* C10: a get_paste answer is 200 on a hit and on a miss and is a function
\* of the looked-up text alone: a stored paste whose content is
\* "Paste not found" is answered exactly as a token without a row is.
MissAnswer == HttpOk(PageHead \o "Paste not found" \o PageTail)

C10_NoMissSignal ==
  [][ \A r \in Workers :
        (Ends(r, "get") /\ out'.resp.kind = "http") =>
          /\ out'.resp.status = 200
          /\ out'.hit = HasToken(table, req[r].path)
          /\ ~out'.hit => out'.resp = MissAnswer
          /\ Row(req[r].path, "Paste not found") \in table => out'.resp = MissAnswer ]_vars

C10_Witness ==
  /\ out.kind = "get"
  /\ out.hit
  /\ out.resp = MissAnswer

====
